---- MODULE Spec2Model ----
(***************************************************************************)
(* Medical Pool (src/src/App.tsx): the lending ledger kept by the React    *)
(* root component in six useLocalStorage slices, shared between browser    *)
(* contexts (tabs) through window.localStorage and its storage events.     *)
(***************************************************************************)
EXTENDS Integers, Sequences, FiniteSets, TLC

\* ------------------------------------------------------------------ bounds
\* uid() values handed out (borrow records ever created).
MaxBorrows == 2
\* Notifications in flight, over all contexts, above which no new mutation starts.
MaxQueue == 2

\* ------------------------------------------------------------- vocabulary
Ctx == {"A", "B"}

KBrands  == "mp:brands"
KModels  == "mp:models"
KVendors == "mp:vendors"
KDepts   == "mp:depts"
KAssets  == "mp:assets"
KBorrows == "mp:borrows"
Keys == {KBrands, KModels, KVendors, KDepts, KAssets, KBorrows}

\* JavaScript null, for string-valued fields.
Null == "<null>"

\* A price is the string typed in the form, a number, or null.
PStr(s) == [t |-> "str", s |-> s, n |-> 0]
PNum(n) == [t |-> "num", s |-> "", n |-> n]
PNull   == [t |-> "null", s |-> "", n |-> 0]

\* Decimal value of the numeric strings a type=number input can hold here.
StrToNum(s) == CASE s = "0" -> 0 [] s = "7" -> 7 [] s = "12" -> 12 [] OTHER -> 0

\* JavaScript truthiness of a price value: "" , 0 and null are falsy.
PriceTruthy(p) == \/ (p.t = "str" /\ p.s # "")
                  \/ (p.t = "num" /\ p.n # 0)

\* Number(x)
Number(p) == IF p.t = "str" THEN PNum(StrToNum(p.s)) ELSE IF p.t = "num" THEN p ELSE PNum(0)

\* f.price ? Number(f.price) : null
NormalizePrice(p) == IF PriceTruthy(p) THEN Number(p) ELSE PNull

\* ------------------------------------------------------------- dates
\* Instants are whole hours since 2024-01-01T00:00Z; 86400000 ms make a day.
HoursPerDay == 24
\* A loan is overdue from this many elapsed days on.
OverdueDays == 14

\* A JavaScript Date: invalid, or an instant. dateOnly records that the text
\* it was parsed from was a bare calendar date (parsed as midnight UTC).
ValidDate(t, bare) == [valid |-> TRUE, t |-> t, dateOnly |-> bare]
InvalidDate == [valid |-> FALSE, t |-> 0, dateOnly |-> FALSE]

\* new Date(text), for the texts used here: yyyy-mm-dd is midnight UTC of that
\* day, an ISO timestamp with Z is that instant, anything else is invalid.
NewDate(s) ==
  CASE s = "2023-12-31" -> ValidDate(-24, TRUE)
    [] s = "2024-01-01" -> ValidDate(0, TRUE)
    [] s = "2024-01-02" -> ValidDate(24, TRUE)
    [] s = "2024-01-10" -> ValidDate(216, TRUE)
    [] s = "2024-01-15" -> ValidDate(336, TRUE)
    [] s = "2024-01-01T00:00:00Z" -> ValidDate(0, FALSE)
    [] s = "2024-01-01T09:00:00Z" -> ValidDate(9, FALSE)
    [] s = "2024-01-01T23:00:00Z" -> ValidDate(23, FALSE)
    [] s = "2024-01-02T01:00:00Z" -> ValidDate(25, FALSE)
    [] s = "2024-01-14T18:00:00Z" -> ValidDate(330, FALSE)
    [] s = "2024-01-15T08:00:00Z" -> ValidDate(344, FALSE)
    [] s = "2024-02-01T00:00:00Z" -> ValidDate(744, FALSE)
    [] s = "2024-02-02T00:00:00Z" -> ValidDate(768, FALSE)
    [] OTHER -> InvalidDate

\* new Date() at instant now.
DateNow(now) == ValidDate(now, FALSE)

\* new Date().toISOString() at instant t, for the instants used here.
toISOString(t) ==
  CASE t = 0   -> "2024-01-01T00:00:00Z"
    [] t = 25  -> "2024-01-02T01:00:00Z"
    [] t = 330 -> "2024-01-14T18:00:00Z"
    [] t = 344 -> "2024-01-15T08:00:00Z"
    [] OTHER   -> "2024-02-01T00:00:00Z"

\* isValidDate(d)
isValidDate(d) == d.valid

\* Mutant of daysBetween: an invalid argument counts as the epoch.
daysBetween_NoGuard(a, d2) == (d2.t - NewDate(a).t) \div HoursPerDay

\* daysBetween(a, b), with d2 = new Date(b):
\* Math.floor((d2.getTime() - d1.getTime()) / 86400000), 0 on an invalid date.
daysBetween(a, d2) ==
  LET d1 == NewDate(a)
  IN  IF ~isValidDate(d1) \/ ~isValidDate(d2) THEN 0
      ELSE (d2.t - d1.t) \div HoursPerDay

\* The calendar day an endpoint falls on in a time zone tz hours ahead of UTC:
\* a bare date is that day, an instant is the local date at that instant.
CalendarDay(d, tz) ==
  IF d.dateOnly THEN d.t \div HoursPerDay ELSE (d.t + tz) \div HoursPerDay

\* elapsedDays of the design document (4.3): both endpoints are brought to
\* local-date granularity and the dates are subtracted; 0 on an invalid date.
ElapsedDays(a, d2, tz) ==
  LET d1 == NewDate(a)
  IN  IF ~d1.valid \/ ~d2.valid THEN 0
      ELSE CalendarDay(d2, tz) - CalendarDay(d1, tz)

\* ---------------------------------------------------------------- state
VARIABLES
  store,      \* window.localStorage: key -> raw entry (absent, or JSON text)
  open,       \* the contexts (tabs) whose App is mounted
  mem,        \* mem[c][k]: context c's useLocalStorage value for key k
  queue,      \* queue[c]: storage events dispatched to c and not yet handled
  editingId,  \* Assets.editingId of each context
  nextId,     \* next fresh uid()
  last,       \* the handler that ran last, and what it reported (setErr)
  lastMut,    \* the last store write made by a user mutation (not by a sync echo)
  halted,     \* the users have stopped issuing mutations
  clock,      \* the current instant and the browser's time-zone offset
  report,     \* report[c]: the Report page of context c (filter, export, output)
  probe,      \* arguments and result of a utility function called on its own
  reloading,  \* reloading[c]: "no", or why context c's page is being reloaded
  full        \* localStorage.setItem throws (the quota is used up)

\* The environment of the ledger: the ledger's handlers leave it alone.
envVars == <<clock, report, probe, reloading, full>>

vars == <<store, open, mem, queue, editingId, nextId, last, lastMut, halted,
          clock, report, probe, reloading, full>>

\* ------------------------------------------------- localStorage + JSON
Absent == [tag |-> "absent", val |-> <<>>]
\* JSON.stringify(v): the stored text of v.
Stringify(v) == [tag |-> "json", val |-> v]
\* JSON.parse(raw), for raw written by Stringify.
Parse(raw) == raw.val
Parseable(raw) == raw.tag = "json"

Event(k, raw) == [key |-> k, newValue |-> raw]

\* The storage event of a write by context w: queued in every other open context.
Notify(q, w, k, raw) ==
  [d \in Ctx |-> IF d \in open /\ d # w THEN Append(q[d], Event(k, raw)) ELSE q[d]]

\* localStorage.setItem(k, text) by context w, seen from the event queues q:
\* an event is dispatched only when the stored text changes.
SetItemQueue(q, w, k, v) ==
  IF store[k] = Stringify(v) THEN q ELSE Notify(q, w, k, Stringify(v))

\* Mutant of SetValue: a write that throws leaves the hook's value as it was.
SetValue_AllOrNothing(q, c, k, v) ==
  /\ mem' = IF full THEN mem ELSE [mem EXCEPT ![c][k] = v]
  /\ store' = IF full THEN store ELSE [store EXCEPT ![k] = Stringify(v)]
  /\ queue' = IF full THEN q ELSE SetItemQueue(q, c, k, v)

\* setValue(v) of the hook for key k in context c, followed by its persist
\* effect (the effect depends on [key, value] and every setter call here
\* installs a fresh array, so it runs after every call). When setItem throws,
\* the effect's catch swallows the exception: nothing is stored or dispatched.
SetValue(q, c, k, v) ==
  /\ mem' = [mem EXCEPT ![c][k] = v]
  /\ store' = IF full THEN store ELSE [store EXCEPT ![k] = Stringify(v)]
  /\ queue' = IF full THEN q ELSE SetItemQueue(q, c, k, v)

QueuedTotal == Len(queue["A"]) + Len(queue["B"])

\* A user may start a mutation in context c.
CanMutate(c) == c \in open /\ ~halted /\ QueuedTotal < MaxQueue

Did(op, c, e, aid, rid) == [op |-> op, ctx |-> c, err |-> e, aid |-> aid, rid |-> rid]

\* The mutation write of context c to key k. pos[d] is the place, in d's
\* queue, of the notification this write dispatches to d (0: none, or handled).
\* The write races when the previous mutation write was another context's, to
\* the same key, and its notification is still unhandled in c's queue. A write
\* that throws is no write.
MutWrite(c, k, v) ==
  IF full THEN lastMut ELSE
  [ctx |-> c, key |-> k, raw |-> Stringify(v),
   racing |-> lastMut.ctx # c /\ lastMut.key = k /\ lastMut.pos[c] > 0,
   pos |-> [d \in Ctx |-> IF d \in open /\ d # c /\ store[k] # Stringify(v)
                          THEN Len(queue[d]) + 1 ELSE 0]]

SeqIdx(s) == 1..Len(s)
\* Mutant of Prepend: the new element goes to the end.
Prepend_AtEnd(x, s) == Append(s, x)
\* [x, ...s]
Prepend(x, s) == <<x>> \o s


\* ---------------------------------------------------------------- assets
AssetFields == {"asset_id", "id_code", "name", "brand", "model", "vendor",
                "serial", "purchase_date", "price"}

MkForm(aid, code, name, serial, price) ==
  [asset_id |-> aid, id_code |-> code, name |-> name, brand |-> "", model |-> "",
   vendor |-> "", serial |-> serial, purchase_date |-> "", price |-> price]

createAsset(prev, payload) == Prepend(payload, prev)
\* Mutant of deleteAsset: the whole collection is dropped.
deleteAsset_All(prev, id) == <<>>

deleteAsset(prev, id) == SelectSeq(prev, LAMBDA a : a.asset_id # id)
\* { ...a, ...patch }: the patch holds every asset field.
updateAsset(prev, id, patch) ==
  [i \in SeqIdx(prev) |-> IF prev[i].asset_id = id THEN patch ELSE prev[i]]

ErrRequired == "required"
ErrDupId    == "dup asset_id"
ErrDupCode  == "dup id_code"
ErrDupSer   == "dup serial"

MissingRequired(f) ==
  f.asset_id = "" \/ f.id_code = "" \/ f.name = "" \/ f.serial = ""

\* What Assets.submit reports for form f against the rendered assets ("" = accepted).
SubmitError(assets, f) ==
  IF MissingRequired(f) THEN ErrRequired
  ELSE IF \E i \in SeqIdx(assets) : assets[i].asset_id = f.asset_id THEN ErrDupId
  ELSE IF \E i \in SeqIdx(assets) : assets[i].id_code = f.id_code THEN ErrDupCode
  ELSE IF \E i \in SeqIdx(assets) : assets[i].serial = f.serial THEN ErrDupSer
  ELSE ""

\* Mutant of SaveEditError: the serial is not checked.
SaveEditError_NoSerial(assets, eid, f) ==
  IF MissingRequired(f) THEN ErrRequired
  ELSE IF \E i \in SeqIdx(assets) :
            assets[i].asset_id = f.asset_id /\ assets[i].asset_id # eid THEN ErrDupId
  ELSE IF \E i \in SeqIdx(assets) :
            assets[i].id_code = f.id_code /\ assets[i].asset_id # eid THEN ErrDupCode
  ELSE ""

\* Mutant of SaveEditError: the row being edited is not excluded (the checks of submit).
SaveEditError_NoExclude(assets, eid, f) ==
  IF MissingRequired(f) THEN ErrRequired
  ELSE IF \E i \in SeqIdx(assets) : assets[i].asset_id = f.asset_id THEN ErrDupId
  ELSE IF \E i \in SeqIdx(assets) : assets[i].id_code = f.id_code THEN ErrDupCode
  ELSE IF \E i \in SeqIdx(assets) : assets[i].serial = f.serial THEN ErrDupSer
  ELSE ""

\* What Assets.saveEdit reports for edit form f while row eid is being edited.
SaveEditError(assets, eid, f) ==
  IF MissingRequired(f) THEN ErrRequired
  ELSE IF \E i \in SeqIdx(assets) :
            assets[i].asset_id = f.asset_id /\ assets[i].asset_id # eid THEN ErrDupId
  ELSE IF \E i \in SeqIdx(assets) :
            assets[i].id_code = f.id_code /\ assets[i].asset_id # eid THEN ErrDupCode
  ELSE IF \E i \in SeqIdx(assets) :
            assets[i].serial = f.serial /\ assets[i].asset_id # eid THEN ErrDupSer
  ELSE ""

HasRow(assets, id) == \E i \in SeqIdx(assets) : assets[i].asset_id = id

\* Mutant of AssetsSubmit: the asset is committed before the form is validated.
AssetsSubmit_CommitFirst(c, f) ==
  /\ CanMutate(c)
  /\ LET assets == mem[c][KAssets]
         payload == [f EXCEPT !.price = NormalizePrice(f.price)]
         v == createAsset(assets, payload)
     IN  /\ last' = Did("Assets.submit", c, SubmitError(assets, f), f.asset_id, 0)
         /\ SetValue(queue, c, KAssets, v)
         /\ lastMut' = MutWrite(c, KAssets, v)
  /\ UNCHANGED <<open, editingId, nextId, halted>>
  /\ UNCHANGED envVars

\* Assets.submit with form f.
AssetsSubmit(c, f) ==
  /\ CanMutate(c)
  /\ LET assets == mem[c][KAssets]
         e == SubmitError(assets, f)
     IN  /\ last' = Did("Assets.submit", c, e, f.asset_id, 0)
         /\ IF e # ""
            THEN UNCHANGED <<store, mem, queue, lastMut>>
            ELSE LET payload == [f EXCEPT !.price = NormalizePrice(f.price)]
                     v == createAsset(assets, payload)
                 IN  /\ SetValue(queue, c, KAssets, v)
                     /\ lastMut' = MutWrite(c, KAssets, v)
  /\ UNCHANGED <<open, editingId, nextId, halted>>
  /\ UNCHANGED envVars

\* AssetRow.startEdit on a row that is not being edited.
StartEdit(c, id) ==
  /\ c \in open
  /\ HasRow(mem[c][KAssets], id)
  /\ editingId[c] # id
  /\ editingId' = [editingId EXCEPT ![c] = id]
  /\ last' = Did("startEdit", c, "", id, 0)
  /\ UNCHANGED <<store, open, mem, queue, nextId, lastMut, halted>>
  /\ UNCHANGED envVars

\* AssetRow.cancelEdit, or leaving the Assets tab (its state is dropped).
CancelEdit(c) ==
  /\ c \in open
  /\ editingId[c] # Null
  /\ editingId' = [editingId EXCEPT ![c] = Null]
  /\ last' = Did("cancelEdit", c, "", Null, 0)
  /\ UNCHANGED <<store, open, mem, queue, nextId, lastMut, halted>>
  /\ UNCHANGED envVars

\* Assets.saveEdit with edit form f, from the row being edited.
SaveEdit(c, f) ==
  /\ CanMutate(c)
  /\ editingId[c] # Null
  /\ HasRow(mem[c][KAssets], editingId[c])
  /\ LET assets == mem[c][KAssets]
         eid == editingId[c]
         e == SaveEditError(assets, eid, f)
     IN  /\ last' = Did("Assets.saveEdit", c, e, eid, 0)
         /\ IF e # ""
            THEN UNCHANGED <<store, mem, queue, lastMut, editingId>>
            ELSE LET patch == [f EXCEPT !.price = NormalizePrice(f.price)]
                     v == updateAsset(assets, eid, patch)
                 IN  /\ SetValue(queue, c, KAssets, v)
                     /\ lastMut' = MutWrite(c, KAssets, v)
                     /\ editingId' = [editingId EXCEPT ![c] = Null]
  /\ UNCHANGED <<open, nextId, halted>>
  /\ UNCHANGED envVars

\* The delete button of a row that is not being edited.
DeleteAsset(c, id) ==
  /\ CanMutate(c)
  /\ HasRow(mem[c][KAssets], id)
  /\ editingId[c] # id
  /\ LET v == deleteAsset(mem[c][KAssets], id)
     IN  /\ SetValue(queue, c, KAssets, v)
         /\ lastMut' = MutWrite(c, KAssets, v)
  /\ last' = Did("deleteAsset", c, "", id, 0)
  /\ UNCHANGED <<open, editingId, nextId, halted>>
  /\ UNCHANGED envVars

\* --------------------------------------------------------------- borrows
MkBorrowForm(lender, borrower, dept, start, end) ==
  [peripherals |-> "", lender_name |-> lender, start_date |-> start,
   end_date |-> end, borrower_name |-> borrower, borrower_dept |-> dept]

\* !b.returned_at
IsActive(b) == b.returned_at = Null \/ b.returned_at = ""
\* App.active and App.activeIds
active(borrows) == SelectSeq(borrows, IsActive)
activeIds(borrows) == [i \in SeqIdx(active(borrows)) |-> active(borrows)[i].asset_id]
Includes(s, x) == \E i \in SeqIdx(s) : s[i] = x

\* assets.find(a => a.asset_id === assetId): the first match, if any.
FindIdx(assets, assetId) ==
  IF \E i \in SeqIdx(assets) : assets[i].asset_id = assetId
  THEN CHOOSE i \in SeqIdx(assets) :
         /\ assets[i].asset_id = assetId
         /\ \A j \in 1..(i - 1) : assets[j].asset_id # assetId
  ELSE 0

\* Mutant of isBusy: the active loans are not consulted.
isBusy_Never(assets, borrows, assetId) == FALSE

\* Mutant of isBusy: the persisted records are consulted, not the context's copy.
isBusy_ReadsStore(assets, borrows, assetId) ==
  IF FindIdx(assets, assetId) = 0 THEN FALSE
  ELSE Includes(activeIds(Parse(store[KBorrows])), assets[FindIdx(assets, assetId)].asset_id)

\* Borrow.isBusy
isBusy(assets, borrows, assetId) ==
  IF FindIdx(assets, assetId) = 0 THEN FALSE
  ELSE Includes(activeIds(borrows), assets[FindIdx(assets, assetId)].asset_id)

ErrNoAsset == "no asset"
ErrBusy    == "busy"
ErrFields  == "fields"
ErrSign    == "sign"

\* What Borrow.submit reports ("" = accepted).
BorrowError(assets, borrows, assetId, form, sign) ==
  IF FindIdx(assets, assetId) = 0 THEN ErrNoAsset
  ELSE IF isBusy(assets, borrows, assetId) THEN ErrBusy
  ELSE IF form.lender_name = "" \/ form.borrower_name = "" \/ form.start_date = ""
       THEN ErrFields
  ELSE IF sign = Null \/ sign = "" THEN ErrSign
  ELSE ""

\* The record Borrow.submit builds.
MkRecord(id, asset, form, sign, ts) ==
  [id |-> id, asset_id |-> asset.asset_id, asset_name |-> asset.name,
   peripherals |-> form.peripherals, lender_name |-> form.lender_name,
   start_date |-> form.start_date,
   end_date |-> IF form.end_date = "" THEN Null ELSE form.end_date,
   borrower_name |-> form.borrower_name, borrower_dept |-> form.borrower_dept,
   returned_at |-> Null, borrower_sign |-> sign, created_at |-> ts]

createBorrow(prev, record) == Prepend(record, prev)
\* { ...b, ...patch } for the record whose id matches.
Merge(b, patch) == [f \in DOMAIN b |-> IF f \in DOMAIN patch THEN patch[f] ELSE b[f]]
\* Mutant of updateBorrow: the id is not compared, every record is patched.
updateBorrow_All(prev, id, patch) == [i \in SeqIdx(prev) |-> Merge(prev[i], patch)]

\* App.updateBorrow
updateBorrow(prev, id, patch) ==
  [i \in SeqIdx(prev) |-> IF prev[i].id = id THEN Merge(prev[i], patch) ELSE prev[i]]
\* Mutant of returnBorrow: the timestamp is not stored.
returnBorrow_Noop(prev, id, ts) == prev

returnBorrow(prev, id, ts) ==
  [i \in SeqIdx(prev) |-> IF prev[i].id = id THEN [prev[i] EXCEPT !.returned_at = ts]
                          ELSE prev[i]]

\* Mutant of Listed: closed loans are listed too.
Listed_Any(borrows, id) == \E i \in SeqIdx(borrows) : borrows[i].id = id

\* The row of record id is listed by the Return tab (it lists active records).
Listed(borrows, id) == \E i \in SeqIdx(borrows) : borrows[i].id = id /\ IsActive(borrows[i])

\* Borrow.submit for the typed asset id, form and signature, at instant ts.
BorrowSubmit(c, assetId, form, sign, ts) ==
  /\ CanMutate(c)
  /\ nextId <= MaxBorrows
  /\ LET assets == mem[c][KAssets]
         borrows == mem[c][KBorrows]
         e == BorrowError(assets, borrows, assetId, form, sign)
     IN  /\ last' = Did("Borrow.submit", c, e, assetId, IF e = "" THEN nextId ELSE 0)
         /\ IF e # ""
            THEN UNCHANGED <<store, mem, queue, lastMut, nextId>>
            ELSE LET rec == MkRecord(nextId, assets[FindIdx(assets, assetId)], form, sign, ts)
                     v == createBorrow(borrows, rec)
                 IN  /\ SetValue(queue, c, KBorrows, v)
                     /\ lastMut' = MutWrite(c, KBorrows, v)
                     /\ nextId' = nextId + 1
  /\ UNCHANGED <<open, editingId, halted>>
  /\ UNCHANGED envVars

\* The return button of a listed row, at instant ts.
ReturnClick(c, id, ts) ==
  /\ CanMutate(c)
  /\ Listed(mem[c][KBorrows], id)
  /\ LET v == returnBorrow(mem[c][KBorrows], id, ts)
     IN  /\ SetValue(queue, c, KBorrows, v)
         /\ lastMut' = MutWrite(c, KBorrows, v)
  /\ last' = Did("returnBorrow", c, "", Null, id)
  /\ UNCHANGED <<open, editingId, nextId, halted>>
  /\ UNCHANGED envVars

\* The fields Return.start copies into the edit form.
EditFields == {"borrower_name", "borrower_dept", "lender_name", "peripherals", "end_date"}
MkEdit(borrower, dept, lender, end) ==
  [borrower_name |-> borrower, borrower_dept |-> dept, lender_name |-> lender,
   peripherals |-> "", end_date |-> end]

\* Return.save of a listed row with edit form edit.
ReturnSave(c, id, edit) ==
  /\ CanMutate(c)
  /\ Listed(mem[c][KBorrows], id)
  /\ LET v == updateBorrow(mem[c][KBorrows], id, edit)
     IN  /\ SetValue(queue, c, KBorrows, v)
         /\ lastMut' = MutWrite(c, KBorrows, v)
  /\ last' = Did("Return.save", c, "", Null, id)
  /\ UNCHANGED <<open, editingId, nextId, halted>>
  /\ UNCHANGED envVars

\* Whether the record with this id is active, closed or missing in borrows.
LoanState(borrows, id) ==
  IF \A i \in SeqIdx(borrows) : borrows[i].id # id THEN "none"
  ELSE IF Listed(borrows, id) THEN "active" ELSE "closed"

\* App.updateBorrow(id, patch) called with any id and patch: it has no guard.
CallUpdateBorrow(c, id, patch) ==
  /\ CanMutate(c)
  /\ LET v == updateBorrow(mem[c][KBorrows], id, patch)
     IN  /\ SetValue(queue, c, KBorrows, v)
         /\ lastMut' = MutWrite(c, KBorrows, v)
  /\ last' = Did("updateBorrow", c, "", LoanState(mem[c][KBorrows], id), id)
  /\ UNCHANGED <<open, editingId, nextId, halted>>
  /\ UNCHANGED envVars

\* ------------------------------------------------------ cross-tab sync
\* Mutant of OnStorage: the event's key is not compared, so every hook of the
\* context takes the event's value.
OnStorage_AnyKey(c) ==
  /\ c \in open
  /\ queue[c] # <<>>
  /\ LET e == Head(queue[c])
         rest == [queue EXCEPT ![c] = Tail(queue[c])]
     IN  /\ last' = Did("onStorage", c, "", e.key, 0)
         /\ IF e.newValue # Absent /\ Parseable(e.newValue)
            THEN /\ mem' = [mem EXCEPT ![c] = [k \in Keys |-> Parse(e.newValue)]]
                 /\ store' = [store EXCEPT ![e.key] = e.newValue]
                 /\ queue' = SetItemQueue(rest, c, e.key, Parse(e.newValue))
            ELSE /\ queue' = rest
                 /\ UNCHANGED <<store, mem>>
  /\ lastMut' = [lastMut EXCEPT !.pos[c] = IF @ > 0 THEN @ - 1 ELSE 0]
  /\ UNCHANGED <<open, editingId, nextId, halted>>
  /\ UNCHANGED envVars

\* useLocalStorage.onStorage for the oldest unhandled event of context c: the
\* hook of the event's key takes the parsed value, and its persist effect
\* then writes that value back to the store.
OnStorage(c) ==
  /\ c \in open
  /\ queue[c] # <<>>
  /\ LET e == Head(queue[c])
         rest == [queue EXCEPT ![c] = Tail(queue[c])]
     IN  /\ last' = Did("onStorage", c, "", e.key, 0)
         /\ IF e.key \in Keys /\ e.newValue # Absent /\ Parseable(e.newValue)
            THEN SetValue(rest, c, e.key, Parse(e.newValue))
            ELSE /\ queue' = rest
                 /\ UNCHANGED <<store, mem>>
  /\ lastMut' = [lastMut EXCEPT !.pos[c] = IF @ > 0 THEN @ - 1 ELSE 0]
  /\ UNCHANGED <<open, editingId, nextId, halted>>
  /\ UNCHANGED envVars

\* The users stop issuing mutations.
Halt ==
  /\ ~halted
  /\ halted' = TRUE
  /\ last' = Did("halt", "A", "", Null, 0)
  /\ UNCHANGED <<store, open, mem, queue, editingId, nextId, lastMut>>
  /\ UNCHANGED envVars

\* -------------------------------------------------------------- report
\* Files, documents, alerts and notices one Report page produces in a run.
MaxOutputs == 2

\* The Report page as mounted: empty filter, no export running, window.XLSX
\* not loaded. files, docs, alerts and notices (of an export without data)
\* record what the page has produced.
ReportPage0 ==
  [from |-> "", to |-> "", dept |-> "",
   xlLoading |-> FALSE, xlNote |-> "", timers |-> 0,
   stage |-> "idle", rows |-> <<>>, lib |-> "none",
   files |-> <<>>, docs |-> <<>>, alerts |-> 0, notices |-> 0]

\* d1 < d2 on Dates: false when either is invalid (NaN).
DateLess(d1, d2) == d1.valid /\ d2.valid /\ d1.t < d2.t

\* r.borrower_dept || ""
OrEmpty(x) == IF x = Null THEN "" ELSE x

\* Mutant of KeepsRecord: the to bound excludes its own day.
KeepsRecord_ToExclusive(r, p) ==
  LET sd == NewDate(r.start_date)
  IN  /\ ~(p.from # "" /\ DateLess(sd, NewDate(p.from)))
      /\ ~(p.to # "" /\ ~DateLess(sd, NewDate(p.to)))
      /\ ~(p.dept # "" /\ OrEmpty(r.borrower_dept) # p.dept)

\* The predicate of Report.filtered for page state p.
KeepsRecord(r, p) ==
  LET sd == NewDate(r.start_date)
  IN  /\ ~(p.from # "" /\ DateLess(sd, NewDate(p.from)))
      /\ ~(p.to # "" /\ DateLess(NewDate(p.to), sd))
      /\ ~(p.dept # "" /\ OrEmpty(r.borrower_dept) # p.dept)

\* Report.filtered
filtered(borrows, p) == SelectSeq(borrows, LAMBDA r : KeepsRecord(r, p))

NoteEmpty    == "no data for the filter"
NoteLoading  == "loading the Excel library"
NoteLoadFail == "XLSX did not load, using the .xls fallback"
NoteUnusable == "XLSX is unusable, using the .xls fallback"
NoteBuildFail == "could not build .xlsx, using the .xls fallback"
NoteDone     == "exported .xlsx"

\* The row a printed document shows when it has no data rows.
NoDataRow == [nodata |-> TRUE]

File(ext, rows) == [ext |-> ext, rows |-> rows]

Outputs(p) == Len(p.files) + Len(p.docs) + p.alerts + p.notices

\* The from / to / department inputs of the Report page.
SetFilter(c, from, to, dept) ==
  /\ c \in open
  /\ <<from, to, dept>> # <<report[c].from, report[c].to, report[c].dept>>
  /\ report' = [report EXCEPT ![c].from = from, ![c].to = to, ![c].dept = dept]
  /\ last' = Did("Report.filter", c, "", Null, 0)
  /\ UNCHANGED <<store, open, mem, queue, editingId, nextId, lastMut, halted,
                 clock, probe, reloading, full>>

\* Report.exportXLSX up to its await: the button is enabled only while no
\* export is running. With no filtered record it leaves a notice and returns.
ExportXLSX(c) ==
  /\ c \in open
  /\ ~report[c].xlLoading
  /\ Outputs(report[c]) < MaxOutputs
  /\ LET p == report[c]
         rows == filtered(mem[c][KBorrows], p)
     IN  IF rows = <<>>
         THEN /\ report' = [report EXCEPT ![c].xlNote = NoteEmpty,
                                          ![c].notices = p.notices + 1,
                                          ![c].timers = p.timers + 1]
              /\ last' = Did("exportXLSX", c, NoteEmpty, Null, 0)
         ELSE /\ report' = [report EXCEPT ![c].xlLoading = TRUE,
                                          ![c].xlNote = NoteLoading,
                                          ![c].stage = "load",
                                          ![c].rows = rows]
              /\ last' = Did("exportXLSX", c, "", Null, 0)
  /\ UNCHANGED <<store, open, mem, queue, editingId, nextId, lastMut, halted,
                 clock, probe, reloading, full>>

\* What loadXLSX can come to: the script fails to load ("error"), it loads and
\* defines no window.XLSX ("undefined"), it defines one without utils
\* ("unusable"), or it defines the library ("ok"). A window.XLSX that is
\* already defined is returned as it is.
LoadOutcomes(p) ==
  IF p.lib = "ok" THEN {"ok"}
  ELSE IF p.lib = "unusable" THEN {"unusable"}
  ELSE {"error", "undefined", "unusable", "ok"}

\* Mutant of ExportSettled: a failed load gives up without the fallback file.
ExportSettled_NoFallback(p, load, built) ==
  IF load = "error"
  THEN [p EXCEPT !.xlNote = NoteLoadFail, !.xlLoading = FALSE, !.stage = "idle"]
  ELSE IF load \in {"undefined", "unusable"}
  THEN [p EXCEPT !.xlNote = NoteUnusable,
                 !.lib = IF load = "unusable" THEN "unusable" ELSE p.lib,
                 !.files = Append(p.files, File("xls", p.rows)),
                 !.xlLoading = FALSE, !.stage = "idle"]
  ELSE [p EXCEPT !.lib = "ok",
                 !.xlNote = IF built THEN NoteDone ELSE NoteBuildFail,
                 !.files = Append(p.files, File(IF built THEN "xlsx" ELSE "xls", p.rows)),
                 !.xlLoading = FALSE, !.stage = "idle",
                 !.timers = p.timers + 1]

\* Report.exportXLSX from its await to its end, for page state p: load is what
\* loadXLSX came to, built whether the workbook was built and written.
ExportSettled(p, load, built) ==
  IF load = "error"
  THEN [p EXCEPT !.xlNote = NoteLoadFail,
                 !.files = Append(p.files, File("xls", p.rows)),
                 !.xlLoading = FALSE, !.stage = "idle"]
  ELSE IF load \in {"undefined", "unusable"}
  THEN [p EXCEPT !.xlNote = NoteUnusable,
                 !.lib = IF load = "unusable" THEN "unusable" ELSE p.lib,
                 !.files = Append(p.files, File("xls", p.rows)),
                 !.xlLoading = FALSE, !.stage = "idle"]
  ELSE [p EXCEPT !.lib = "ok",
                 !.xlNote = IF built THEN NoteDone ELSE NoteBuildFail,
                 !.files = Append(p.files, File(IF built THEN "xlsx" ELSE "xls", p.rows)),
                 !.xlLoading = FALSE, !.stage = "idle",
                 !.timers = p.timers + 1]

\* The awaited loadXLSX settles and exportXLSX runs to its end.
ExportSettles(c, load, built) ==
  /\ c \in open
  /\ report[c].stage = "load"
  /\ load \in LoadOutcomes(report[c])
  /\ report' = [report EXCEPT ![c] = ExportSettled(report[c], load, built)]
  /\ last' = Did("exportXLSX.settled", c, load, Null, 0)
  /\ UNCHANGED <<store, open, mem, queue, editingId, nextId, lastMut, halted,
                 clock, probe, reloading, full>>

\* A setTimeout(() => setXlNote(""), ...) fires.
ClearNote(c) ==
  /\ c \in open
  /\ report[c].timers > 0
  /\ report' = [report EXCEPT ![c].xlNote = "", ![c].timers = report[c].timers - 1]
  /\ last' = Did("clearNote", c, "", Null, 0)
  /\ UNCHANGED <<store, open, mem, queue, editingId, nextId, lastMut, halted,
                 clock, probe, reloading, full>>

\* Mutant of PrintBody: a report without rows prints an empty table.
PrintBody_Empty(rows) == rows

\* rows || no-data row: the body of the printed table.
PrintBody(rows) == IF rows = <<>> THEN <<NoDataRow>> ELSE rows

\* Report.printPDF; popup tells whether window.open returned a window.
PrintPDF(c, popup) ==
  /\ c \in open
  /\ Outputs(report[c]) < MaxOutputs
  /\ LET p == report[c]
         rows == filtered(mem[c][KBorrows], p)
     IN  IF ~popup
         THEN /\ report' = [report EXCEPT ![c].alerts = p.alerts + 1]
              /\ last' = Did("printPDF", c, "popup blocked", Null, 0)
         ELSE /\ report' = [report EXCEPT ![c].docs = Append(p.docs, PrintBody(rows))]
              /\ last' = Did("printPDF", c, "", Null, 0)
  /\ UNCHANGED <<store, open, mem, queue, editingId, nextId, lastMut, halted,
                 clock, probe, reloading, full>>

\* ----------------------------------------------------------- dashboard
\* Time passes: the clock reaches instant t.
Tick(t) ==
  /\ t > clock.now
  /\ clock' = [clock EXCEPT !.now = t]
  /\ last' = Did("tick", "A", "", Null, 0)
  /\ UNCHANGED <<store, open, mem, queue, editingId, nextId, lastMut, halted,
                 report, probe, reloading, full>>

\* Mutant of overdue: the list is taken from all records, returned ones too.
overdue_FromAll(borrows, now) ==
  SelectSeq(borrows, LAMBDA b : daysBetween(b.start_date, DateNow(now)) >= OverdueDays)

\* Dashboard.overdue, from the borrows of the context at instant now.
overdue(borrows, now) ==
  SelectSeq(active(borrows), LAMBDA b : daysBetween(b.start_date, DateNow(now)) >= OverdueDays)

\* Dashboard.normal
normal(borrows, now) ==
  SelectSeq(active(borrows), LAMBDA b : daysBetween(b.start_date, DateNow(now)) < OverdueDays)

\* App.overdueCount
overdueCount(borrows, now) == Len(overdue(borrows, now))

\* The number of distinct elements of sequence s: new Set(s).size
SetSize(s) == Cardinality({ s[i] : i \in SeqIdx(s) })

\* App.borrowedCount
borrowedCount(borrows) == SetSize(activeIds(borrows))

\* Math.max(a, b)
Max(a, b) == IF a >= b THEN a ELSE b

\* App.availableCount
availableCount(assets, borrows) == Max(Len(assets) - borrowedCount(borrows), 0)

\* ------------------------------------------------------ utility calls
\* daysBetween(a, b) called on its own; b = "now" stands for the default
\* argument new Date().
CallDaysBetween ==
  /\ probe.fn = "daysBetween"
  /\ ~probe.done
  /\ LET d2 == IF probe.b = "now" THEN DateNow(clock.now) ELSE NewDate(probe.b)
     IN  probe' = [probe EXCEPT !.out = daysBetween(probe.a, d2), !.done = TRUE]
  /\ last' = Did("daysBetween", "A", "", Null, 0)
  /\ UNCHANGED <<store, open, mem, queue, editingId, nextId, lastMut, halted,
                 clock, report, reloading, full>>

\* ---------------------------------------------------- reference lists
\* v.trim(), for the texts typed here.
Trim(s) ==
  CASE s = " GE " -> "GE"
    [] s = "GE "  -> "GE"
    [] s = "  "   -> ""
    [] OTHER      -> s

\* models.find(m => m.name === v && m.brand === brand) found an entry.
HasModel(models, brand, v) ==
  \E i \in SeqIdx(models) : models[i].name = v /\ models[i].brand = brand

\* A quick add that leaves list k of context c as it is.
QuickAddNothing(c, k, v) ==
  /\ last' = Did("quickAdd", c, "unchanged", k, 0)
  /\ UNCHANGED <<store, mem, queue, lastMut>>

\* A quick add that sets list k of context c to list.
QuickAddSets(c, k, list) ==
  /\ SetValue(queue, c, k, list)
  /\ lastMut' = MutWrite(c, k, list)
  /\ last' = Did("quickAdd", c, "", k, 0)

\* Mutant of QuickAddList: the value is appended even when it is in the list.
QuickAddList_NoDedup(list, v) == Append(list, v)

\* [...list, v] unless list.includes(v)
QuickAddList(list, v) == IF Includes(list, v) THEN list ELSE Append(list, v)

\* confirmAddBrand / confirmAddVendor / Borrow.confirmAddDept with typed text
\* raw, on the string list under key k.
ConfirmAdd(c, k, raw) ==
  /\ CanMutate(c)
  /\ k \in {KBrands, KVendors, KDepts}
  /\ LET v == Trim(raw)
         list == mem[c][k]
     IN  IF v = "" \/ QuickAddList(list, v) = list
         THEN QuickAddNothing(c, k, v)
         ELSE QuickAddSets(c, k, QuickAddList(list, v))
  /\ UNCHANGED <<open, editingId, nextId, halted>>
  /\ UNCHANGED envVars

\* Assets.confirmAddModel with typed text raw while the form's brand is brand.
ConfirmAddModel(c, brand, raw) ==
  /\ CanMutate(c)
  /\ LET v == Trim(raw)
         models == mem[c][KModels]
     IN  IF brand = "" \/ v = "" \/ HasModel(models, brand, v)
         THEN QuickAddNothing(c, KModels, v)
         ELSE QuickAddSets(c, KModels, Append(models, [brand |-> brand, name |-> v]))
  /\ UNCHANGED <<open, editingId, nextId, halted>>
  /\ UNCHANGED envVars

\* ------------------------------------------------ startup, reload, reset
\* Stored text that JSON.parse rejects.
Corrupt == [tag |-> "text", val |-> <<>>]

\* The hooks of App in the order they are called.
KeyOrder == <<KBrands, KModels, KVendors, KDepts, KAssets, KBorrows>>

\* Mutant of Seed: the hook starts from its initial value whatever is stored.
Seed_IgnoresStore(raw) == <<>>

\* useState initialiser of the hook: the parsed entry, or the initial value []
\* when the key is absent or its text does not parse.
Seed(raw) == IF raw # Absent /\ Parseable(raw) THEN Parse(raw) ELSE <<>>

\* The storage events of the persist effects that run when a context mounts on
\* store st, key by key: an effect that rewrites the stored text dispatches none.
RECURSIVE MountEvents(_, _)
MountEvents(i, st) ==
  IF i > Len(KeyOrder) THEN <<>>
  ELSE LET k == KeyOrder[i]
           raw == Stringify(Seed(st[k]))
       IN  (IF st[k] # raw THEN <<Event(k, raw)>> ELSE <<>>) \o MountEvents(i + 1, st)

\* The storage events of removing every present key of store st.
RECURSIVE RemoveEvents(_, _)
RemoveEvents(i, st) ==
  IF i > Len(KeyOrder) THEN <<>>
  ELSE (IF st[KeyOrder[i]] # Absent THEN <<Event(KeyOrder[i], Absent)>> ELSE <<>>)
         \o RemoveEvents(i + 1, st)

\* Events evs dispatched to every open context other than w.
Dispatch(w, evs) ==
  [d \in Ctx |-> IF d = w THEN <<>>
                 ELSE IF d \in open THEN queue[d] \o evs ELSE queue[d]]

\* Context c starts (a tab is opened, or a reload completes): every hook seeds
\* its value from the store, then every persist effect writes its value.
\* last.aid records what the start completes ("no", "reload" or "reset").
Start(c) ==
  /\ c \notin open
  /\ open' = open \cup {c}
  /\ mem' = [mem EXCEPT ![c] = [k \in Keys |-> Seed(store[k])]]
  /\ store' = IF full THEN store ELSE [k \in Keys |-> Stringify(Seed(store[k]))]
  /\ queue' = Dispatch(c, IF full THEN <<>> ELSE MountEvents(1, store))
  /\ editingId' = [editingId EXCEPT ![c] = Null]
  /\ reloading' = [reloading EXCEPT ![c] = "no"]
  /\ report' = [report EXCEPT ![c] = ReportPage0]
  /\ last' = Did("start", c, "", reloading[c], 0)
  /\ lastMut' = [lastMut EXCEPT !.pos[c] = 0]
  /\ UNCHANGED <<nextId, halted, clock, probe, full>>

\* The page of context c is unloaded for a reload: its component state and the
\* events not yet handled go with it. mem[c] keeps the collections it held.
Close(c) ==
  /\ c \in open
  /\ ~halted
  /\ open' = open \ {c}
  /\ queue' = [queue EXCEPT ![c] = <<>>]
  /\ editingId' = [editingId EXCEPT ![c] = Null]
  /\ reloading' = [reloading EXCEPT ![c] = "reload"]
  /\ last' = Did("close", c, "", Null, 0)
  /\ lastMut' = [lastMut EXCEPT !.pos[c] = 0]
  /\ UNCHANGED <<store, mem, nextId, halted, clock, report, probe, full>>

\* Mutant of Cleared: the borrow records are left in the store.
Cleared_KeepsBorrows(st) == [k \in Keys |-> IF k = KBorrows THEN st[k] ELSE Absent]

\* Store st after localStorage.removeItem of every key that starts with "mp:".
Cleared(st) == [k \in Keys |-> Absent]

\* Settings.onResetAll in context c: every mp: key is removed, then the page
\* is reloaded (the reload completes with Start).
Reset(c) ==
  /\ CanMutate(c)
  /\ store' = Cleared(store)
  /\ open' = open \ {c}
  /\ queue' = Dispatch(c, RemoveEvents(1, store))
  /\ editingId' = [editingId EXCEPT ![c] = Null]
  /\ reloading' = [reloading EXCEPT ![c] = "reset"]
  /\ last' = Did("reset", c, "", Null, 0)
  /\ lastMut' = [lastMut EXCEPT !.pos[c] = 0]
  /\ UNCHANGED <<mem, nextId, halted, clock, report, probe, full>>

\* The storage quota runs out (b = TRUE: setItem throws from now on) or space
\* is available again (b = FALSE).
Quota(b) ==
  /\ full # b
  /\ full' = b
  /\ last' = Did("quota", "A", "", Null, 0)
  /\ UNCHANGED <<store, open, mem, queue, editingId, nextId, lastMut, halted,
                 clock, report, probe, reloading>>

\* ------------------------------------------------------------- inputs
\* Instants: when a borrow is created, and when a return is recorded.
CreatedStamps == {"2024-01-01T09:00:00Z"}
Stamps == {"2024-02-01T00:00:00Z", "2024-02-02T00:00:00Z"}

FormA1 == MkForm("A1", "C1", "N1", "S1", PStr("7"))
FormA2 == MkForm("A2", "C2", "N1", "S2", PStr(""))

\* Register forms: two disjoint assets, forms that clash with them in one key
\* field each, and forms with a required field left empty.
AssetForms ==
  { FormA1, FormA2,
    MkForm("A1", "C2", "N1", "S2", PStr("")),
    MkForm("A2", "C1", "N1", "S2", PStr("")),
    MkForm("A2", "C2", "N1", "S1", PStr("")),
    MkForm("",   "C2", "N1", "S2", PStr("")),
    MkForm("A2", "C2", "",   "S2", PStr("")) }

\* Edit forms: every combination of the key values, a change of the name
\* alone, and an emptied name. An untouched price is the stored number or "".
EditForms ==
  { MkForm(a, k, "N1", s, PNum(7)) : a \in {"A1", "A2"}, k \in {"C1", "C2"}, s \in {"S1", "S2"} }
  \cup { MkForm("A1", "C1", "N2", "S1", PNum(7)),
         MkForm("A1", "C1", "",   "S1", PNum(7)),
         MkForm("A2", "C2", "N2", "S2", PStr("")) }

AssetIds == {"A1", "A2"}

\* The ledger specification registers FormA1 and FormA2 and renames A1 to A2.
LedgerForms == {FormA1, FormA2}
RenameForms == { MkForm("A2", "C1", "N1", "S1", PNum(7)) }

BorrowForms ==
  { MkBorrowForm("L1", "B1", "ICU", "2024-01-01", ""),
    MkBorrowForm("",   "B1", "ICU", "2024-01-01", "") }
Signs == {Null, "data:image/png;base64,AAA"}
Edits == { MkEdit("B2", "ER", "L1", "") }
RecordIds == 1..MaxBorrows

\* ------------------------------------------------- environment
Clock0 == [now |-> 0, tz |-> 0]
NoProbe == [fn |-> Null, a |-> "", b |-> "", out |-> 0, done |-> FALSE]
Report0 == [c \in Ctx |-> ReportPage0]

\* ------------------------------------------------- one context
NoMut == [ctx |-> "A", key |-> Null, raw |-> Absent, racing |-> FALSE,
          pos |-> [d \in Ctx |-> 0]]

\* Context A has started on an empty store: every hook seeded its initial
\* value [] and its persist effect wrote it.
Init ==
  /\ store = [k \in Keys |-> Stringify(<<>>)]
  /\ open = {"A"}
  /\ mem = [c \in Ctx |-> [k \in Keys |-> <<>>]]
  /\ queue = [c \in Ctx |-> <<>>]
  /\ editingId = [c \in Ctx |-> Null]
  /\ nextId = 1
  /\ last = Did("init", "A", "", Null, 0)
  /\ lastMut = NoMut
  /\ halted = FALSE
  /\ clock = Clock0 /\ report = Report0 /\ probe = NoProbe
  /\ reloading = [c \in Ctx |-> "no"]
  /\ full = FALSE

\* The asset register of one context.
NextAssets ==
  \E c \in Ctx :
    \/ \E f \in AssetForms : AssetsSubmit(c, f)
    \/ \E id \in AssetIds : StartEdit(c, id)
    \/ CancelEdit(c)
    \/ \E f \in EditForms : SaveEdit(c, f)
    \/ \E id \in AssetIds : DeleteAsset(c, id)

SpecAssets == Init /\ [][NextAssets]_vars

\* The ledger of one context: assets and borrow records.
Next ==
  \E c \in Ctx :
    \/ \E f \in LedgerForms : AssetsSubmit(c, f)
    \/ \E id \in AssetIds : StartEdit(c, id)
    \/ CancelEdit(c)
    \/ \E f \in RenameForms : SaveEdit(c, f)
    \/ \E id \in AssetIds : DeleteAsset(c, id)
    \/ \E id \in AssetIds, form \in BorrowForms, sign \in Signs, ts \in CreatedStamps :
         BorrowSubmit(c, id, form, sign, ts)
    \/ \E id \in RecordIds, ts \in Stamps : ReturnClick(c, id, ts)
    \/ \E id \in RecordIds, edit \in Edits : ReturnSave(c, id, edit)

Spec == Init /\ [][Next]_vars

\* ------------------------------------------------- two contexts
\* Contexts A and B have both started on an empty store: A's persist effects
\* wrote [] under every key, B seeded the same values and its effects
\* rewrote the same text, which dispatches no event.
InitSync ==
  /\ store = [k \in Keys |-> Stringify(<<>>)]
  /\ open = {"A", "B"}
  /\ mem = [c \in Ctx |-> [k \in Keys |-> <<>>]]
  /\ queue = [c \in Ctx |-> <<>>]
  /\ editingId = [c \in Ctx |-> Null]
  /\ nextId = 1
  /\ last = Did("init", "A", "", Null, 0)
  /\ lastMut = NoMut
  /\ halted = FALSE
  /\ clock = Clock0 /\ report = Report0 /\ probe = NoProbe
  /\ reloading = [c \in Ctx |-> "no"]
  /\ full = FALSE

SyncForms == {FormA1}
SyncAssetIds == {"A1"}
SyncBorrowForms == { MkBorrowForm("L1", "B1", "ICU", "2024-01-01", "") }
SyncSigns == {"data:image/png;base64,AAA"}

NextSync ==
  \E c \in Ctx :
    \/ \E f \in SyncForms : AssetsSubmit(c, f)
    \/ \E id \in SyncAssetIds, form \in SyncBorrowForms, sign \in SyncSigns,
          ts \in CreatedStamps : BorrowSubmit(c, id, form, sign, ts)
    \/ \E id \in RecordIds, ts \in Stamps : ReturnClick(c, id, ts)
    \/ \E id \in RecordIds, edit \in Edits : ReturnSave(c, id, edit)
    \/ OnStorage(c)

SpecSync == InitSync /\ [][NextSync]_vars

\* The same, with users who may stop; every open context goes on handling the
\* storage events dispatched to it (the browser's event loop runs each task).
NextFair == NextSync \/ Halt

SpecFair ==
  /\ InitSync
  /\ [][NextFair]_vars
  /\ \A c \in Ctx : WF_vars(OnStorage(c))

\* ------------------------------------------------- reload and reset
SoloCtx == {"A"}

StoredA1 == [FormA1 EXCEPT !.price = NormalizePrice(FormA1.price)]

\* Stores a context can start on: the assets and borrows entries absent,
\* unparsable, empty or filled, the brands entry absent or filled.
ReloadStores ==
  { [k \in Keys |-> IF k = KAssets THEN a
                    ELSE IF k = KBorrows THEN b
                    ELSE IF k = KBrands THEN x
                    ELSE Stringify(<<>>)] :
      a \in {Absent, Corrupt, Stringify(<<>>), Stringify(<<StoredA1>>)},
      b \in {Absent, Corrupt, Stringify(<<>>)},
      x \in {Absent, Stringify(<<"GE">>)} }

\* No context is open yet.
InitReload ==
  /\ store \in ReloadStores
  /\ open = {}
  /\ mem = [c \in Ctx |-> [k \in Keys |-> <<>>]]
  /\ queue = [c \in Ctx |-> <<>>]
  /\ editingId = [c \in Ctx |-> Null]
  /\ nextId = 1
  /\ last = Did("init", "A", "", Null, 0)
  /\ lastMut = NoMut
  /\ halted = FALSE
  /\ clock = Clock0 /\ report = Report0 /\ probe = NoProbe
  /\ reloading = [c \in Ctx |-> "no"]
  /\ full = FALSE

\* One context that starts, works, reloads and resets.
NextReload ==
  \E c \in SoloCtx :
    \/ Start(c)
    \/ Close(c)
    \/ Reset(c)
    \/ \E f \in LedgerForms : AssetsSubmit(c, f)
    \/ \E id \in AssetIds : DeleteAsset(c, id)
    \/ \E id \in AssetIds, form \in SyncBorrowForms, sign \in SyncSigns, ts \in CreatedStamps :
         BorrowSubmit(c, id, form, sign, ts)
    \/ \E id \in RecordIds, ts \in Stamps : ReturnClick(c, id, ts)
    \/ \E k \in {KBrands, KVendors, KDepts} : ConfirmAdd(c, k, "GE")

SpecReload == InitReload /\ [][NextReload]_vars

\* Two contexts, one of which may reset while the other goes on working.
NextReset ==
  \E c \in Ctx :
    \/ \E f \in SyncForms : AssetsSubmit(c, f)
    \/ Reset(c)
    \/ Start(c)
    \/ OnStorage(c)

SpecReset == InitSync /\ [][NextReset]_vars

\* ------------------------------------------------- daysBetween alone
DateTexts ==
  { "2023-12-31", "2024-01-01", "2024-01-02", "2024-01-10", "2024-01-15",
    "2024-01-01T23:00:00Z", "2024-01-02T01:00:00Z", "2024-01-14T18:00:00Z",
    "", "invalid-date" }

\* Hours the browser's time zone is ahead of UTC.
TzOffsets == {0, 7}

Instants == {0, 25, 330, 344}

InitDays ==
  /\ store = [k \in Keys |-> Stringify(<<>>)]
  /\ open = {"A"}
  /\ mem = [c \in Ctx |-> [k \in Keys |-> <<>>]]
  /\ queue = [c \in Ctx |-> <<>>]
  /\ editingId = [c \in Ctx |-> Null]
  /\ nextId = 1
  /\ last = Did("init", "A", "", Null, 0)
  /\ lastMut = NoMut
  /\ halted = FALSE
  /\ \E t \in Instants, z \in TzOffsets : clock = [now |-> t, tz |-> z]
  /\ report = Report0
  /\ \E a \in DateTexts, b \in DateTexts \cup {"now"} :
       probe = [fn |-> "daysBetween", a |-> a, b |-> b, out |-> 0, done |-> FALSE]
  /\ reloading = [c \in Ctx |-> "no"]
  /\ full = FALSE

NextDays == CallDaysBetween

SpecDays == InitDays /\ [][NextDays]_vars

\* ------------------------------------------------- dashboard over time
InitDash ==
  /\ store = [k \in Keys |-> Stringify(<<>>)]
  /\ open = {"A"}
  /\ mem = [c \in Ctx |-> [k \in Keys |-> <<>>]]
  /\ queue = [c \in Ctx |-> <<>>]
  /\ editingId = [c \in Ctx |-> Null]
  /\ nextId = 1
  /\ last = Did("init", "A", "", Null, 0)
  /\ lastMut = NoMut
  /\ halted = FALSE
  /\ \E z \in TzOffsets : clock = [now |-> 0, tz |-> z]
  /\ report = Report0 /\ probe = NoProbe
  /\ reloading = [c \in Ctx |-> "no"]
  /\ full = FALSE

DashBorrowForms ==
  { MkBorrowForm("L1", "B1", "ICU", "2024-01-01", ""),
    MkBorrowForm("L1", "B2", "ER",  "2024-01-10", "") }

NextDash ==
  \/ \E t \in Instants : Tick(t)
  \/ \E c \in SoloCtx :
       \/ \E f \in LedgerForms : AssetsSubmit(c, f)
       \/ \E id \in AssetIds, form \in DashBorrowForms, sign \in SyncSigns :
            BorrowSubmit(c, id, form, sign, toISOString(clock.now))
       \/ \E id \in RecordIds : ReturnClick(c, id, toISOString(clock.now))

SpecDash == InitDash /\ [][NextDash]_vars

\* ------------------------------------------------- report page
StoredA2 == [FormA2 EXCEPT !.price = NormalizePrice(FormA2.price)]

\* Two borrow records of an earlier session: an ICU loan of 1 January that
\* was returned, and an ER loan of 10 January that is still active.
Loan1 == [MkRecord(1, StoredA1, MkBorrowForm("L1", "B1", "ICU", "2024-01-01", ""),
                   "data:image/png;base64,AAA", "2024-01-01T09:00:00Z")
            EXCEPT !.returned_at = "2024-01-02T01:00:00Z"]
Loan2 == MkRecord(2, StoredA2, MkBorrowForm("L1", "B2", "ER", "2024-01-10", ""),
                  "data:image/png;base64,AAA", "2024-01-01T09:00:00Z")

ReportLedgers == { <<Loan1>>, <<Loan2, Loan1>> }

\* Context A has started on the store of an earlier session.
InitReport ==
  /\ \E l \in ReportLedgers :
       /\ store = [k \in Keys |-> IF k = KBorrows THEN Stringify(l)
                                  ELSE IF k = KAssets THEN Stringify(<<StoredA2, StoredA1>>)
                                  ELSE Stringify(<<>>)]
       /\ mem = [c \in Ctx |-> [k \in Keys |-> IF c = "A" THEN Seed(store[k]) ELSE <<>>]]
       /\ nextId = Len(l) + 1
  /\ open = {"A"}
  /\ queue = [c \in Ctx |-> <<>>]
  /\ editingId = [c \in Ctx |-> Null]
  /\ last = Did("init", "A", "", Null, 0)
  /\ lastMut = NoMut
  /\ halted = FALSE
  /\ clock = Clock0 /\ report = Report0 /\ probe = NoProbe
  /\ reloading = [c \in Ctx |-> "no"]
  /\ full = FALSE

\* Filters: none, a from date, a to date, a department, all three.
Filters ==
  { <<"", "", "">>, <<"2024-01-10", "", "">>, <<"", "2024-01-01", "">>,
    <<"", "", "ICU">>, <<"2024-01-02", "2024-01-10", "ICU">> }

LoadResults == {"error", "undefined", "unusable", "ok"}

NextReport ==
  \E c \in SoloCtx :
    \/ \E f \in Filters : SetFilter(c, f[1], f[2], f[3])
    \/ ExportXLSX(c)
    \/ \E load \in LoadResults, built \in BOOLEAN : ExportSettles(c, load, built)
    \/ ClearNote(c)
    \/ \E popup \in BOOLEAN : PrintPDF(c, popup)

\* The awaited script load settles: the browser fires load or error.
SpecReport ==
  /\ InitReport
  /\ [][NextReport]_vars
  /\ \A c \in SoloCtx :
       WF_vars(\E load \in LoadResults, built \in BOOLEAN : ExportSettles(c, load, built))

\* ------------------------------------------------- reference lists
ModelBrands == {"", "GE"}
ModelTexts == {"M1", "  "}
ListKeys == {KBrands}
ListTexts == {" GE ", "HP", "  "}

NextLists ==
  \E c \in Ctx :
    \/ \E k \in ListKeys, raw \in ListTexts : ConfirmAdd(c, k, raw)
    \/ \E brand \in ModelBrands, raw \in ModelTexts : ConfirmAddModel(c, brand, raw)
    \/ OnStorage(c)

SpecLists == InitSync /\ [][NextLists]_vars


\* ------------------------------------------------- updateBorrow
\* Patches: the loan is reopened, the loan is closed and its borrower changed,
\* and the Return tab's edit form.
Patches ==
  { [returned_at |-> Null],
    [borrower_name |-> "B2", returned_at |-> "2024-02-02T00:00:00Z"] }
  \cup Edits

\* The ids of the records, and an id no record has.
PatchIds == RecordIds \cup {0}

NextUpdate ==
  \E c \in SoloCtx :
    \/ \E f \in SyncForms : AssetsSubmit(c, f)
    \/ \E id \in SyncAssetIds, form \in SyncBorrowForms, sign \in SyncSigns,
          ts \in CreatedStamps : BorrowSubmit(c, id, form, sign, ts)
    \/ \E id \in RecordIds, ts \in CreatedStamps : ReturnClick(c, id, ts)
    \/ \E id \in PatchIds, patch \in Patches : CallUpdateBorrow(c, id, patch)

SpecUpdate == Init /\ [][NextUpdate]_vars

\* ------------------------------------------------- failing store writes
\* Two contexts whose store may refuse writes: context A mutates, context B
\* handles what it is notified of.
NextQuota ==
  \/ \E b \in BOOLEAN : Quota(b)
  \/ \E c \in SoloCtx :
       \/ \E f \in SyncForms : AssetsSubmit(c, f)
       \/ \E id \in SyncAssetIds, form \in SyncBorrowForms, sign \in SyncSigns,
             ts \in CreatedStamps : BorrowSubmit(c, id, form, sign, ts)
       \/ \E id \in RecordIds, ts \in CreatedStamps : ReturnClick(c, id, ts)
  \/ \E c \in Ctx : OnStorage(c)

SpecQuota == InitSync /\ [][NextQuota]_vars

\* ------------------------------------------------- reset beside another context
\* Context A registers asset A1 and resets; context B, which stays open,
\* registers asset A2. Only A ever registers A1.
NextUndo ==
  \/ AssetsSubmit("A", FormA1)
  \/ AssetsSubmit("B", FormA2)
  \/ Reset("A")
  \/ Start("A")
  \/ \E c \in Ctx : OnStorage(c)

SpecUndo == InitSync /\ [][NextUndo]_vars

\* ================================================================ claims
AssetsOf(c) == mem[c][KAssets]
BorrowsOf(c) == mem[c][KBorrows]

UniqueKeys(assets) ==
  \A i, j \in SeqIdx(assets) :
    i # j => /\ assets[i].asset_id # assets[j].asset_id
             /\ assets[i].id_code # assets[j].id_code
             /\ assets[i].serial # assets[j].serial

\* C1: in one context, whatever registrations, updates and deletions were
\* attempted, no two assets of the collection share an asset_id, an id_code
\* or a serial.
C1_UniqueKeys == \A c \in open : UniqueKeys(AssetsOf(c))

\* Two assets are registered, and the last attempt (accepted or rejected) was an update.
C1_Witness ==
  /\ Len(AssetsOf("A")) = 2
  /\ last.op = "Assets.saveEdit"
  /\ last.err \in {"", ErrDupId, ErrDupCode, ErrDupSer}

OneActivePerAsset(borrows) ==
  \A i, j \in SeqIdx(borrows) :
    (i # j /\ IsActive(borrows[i]) /\ IsActive(borrows[j]))
      => borrows[i].asset_id # borrows[j].asset_id

\* C2: in one context, for each asset_id the borrow collection holds at most
\* one record whose returned_at is null.
C2_OneActiveLoan == \A c \in open : OneActivePerAsset(BorrowsOf(c))

\* The same asset was lent twice: one loan is closed, the other active.
C2_Witness ==
  \E i, j \in SeqIdx(BorrowsOf("A")) :
    /\ BorrowsOf("A")[i].asset_id = BorrowsOf("A")[j].asset_id
    /\ IsActive(BorrowsOf("A")[i])
    /\ ~IsActive(BorrowsOf("A")[j])

HasActive(borrows, assetId) ==
  \E i \in SeqIdx(borrows) : borrows[i].asset_id = assetId /\ IsActive(borrows[i])

Complete(form, sign) ==
  /\ form.lender_name # "" /\ form.borrower_name # "" /\ form.start_date # ""
  /\ sign # Null /\ sign # ""

\* C3: in one context, (a) a borrow submission for a registered asset that has
\* an active record is rejected and adds no record; (b) after returnBorrow on
\* a record its asset has no active record; (c) a complete, signed submission
\* for a registered asset without an active record is accepted and adds
\* exactly one new active record, at the head.
C3_BorrowReturnBorrow ==
  [][ /\ \A c \in Ctx, id \in AssetIds, form \in BorrowForms, sign \in Signs,
           ts \in CreatedStamps :
           BorrowSubmit(c, id, form, sign, ts) =>
             /\ (HasRow(AssetsOf(c), id) /\ HasActive(BorrowsOf(c), id))
                  => (last'.err = ErrBusy /\ mem' = mem /\ store' = store)
             /\ (HasRow(AssetsOf(c), id) /\ ~HasActive(BorrowsOf(c), id)
                   /\ Complete(form, sign))
                  => /\ last'.err = ""
                     /\ Len(mem'[c][KBorrows]) = Len(BorrowsOf(c)) + 1
                     /\ Tail(mem'[c][KBorrows]) = BorrowsOf(c)
                     /\ Head(mem'[c][KBorrows]).asset_id = id
                     /\ IsActive(Head(mem'[c][KBorrows]))
      /\ \A c \in Ctx, rid \in RecordIds, ts \in Stamps :
           ReturnClick(c, rid, ts) =>
             \A i \in SeqIdx(BorrowsOf(c)) :
               BorrowsOf(c)[i].id = rid
                 => ~HasActive(mem'[c][KBorrows], BorrowsOf(c)[i].asset_id)
    ]_vars

\* An asset was lent, returned and lent again: the new loan is at the head.
C3_Witness ==
  /\ last.op = "Borrow.submit" /\ last.err = ""
  /\ Len(BorrowsOf("A")) = 2
  /\ BorrowsOf("A")[1].asset_id = BorrowsOf("A")[2].asset_id
  /\ IsActive(BorrowsOf("A")[1])
  /\ ~IsActive(BorrowsOf("A")[2])

\* C4: a rejected asset registration or asset update leaves every in-memory
\* collection, every persisted entry and the pending notifications as they were.
C4_RejectionChangesNothing ==
  [][ (last'.op \in {"Assets.submit", "Assets.saveEdit"} /\ last'.err # "")
        => (mem' = mem /\ store' = store /\ queue' = queue /\ editingId' = editingId)
    ]_vars

\* A registration was rejected for a duplicated key while an asset exists.
C4_Witness ==
  /\ last.op = "Assets.submit"
  /\ last.err \in {ErrDupId, ErrDupCode, ErrDupSer}
  /\ Len(AssetsOf("A")) >= 1

\* The row that context c is editing.
EditedAsset(c) == AssetsOf(c)[FindIdx(AssetsOf(c), editingId[c])]

KeysSame(a, f) ==
  a.asset_id = f.asset_id /\ a.id_code = f.id_code /\ a.serial = f.serial

\* Form f holds, in a key field, the value an asset other than eid holds there.
ClashesOther(assets, eid, f) ==
  \E i \in SeqIdx(assets) :
    /\ assets[i].asset_id # eid
    /\ \/ assets[i].asset_id = f.asset_id
       \/ assets[i].id_code = f.id_code
       \/ assets[i].serial = f.serial

\* C9 as stated: an update that changes only non-key fields always succeeds,
\* and an update that sets a key field to another asset's value always fails.
C9_Original ==
  [][ \A c \in Ctx, f \in EditForms :
        SaveEdit(c, f) =>
          /\ KeysSame(EditedAsset(c), f) => last'.err = ""
          /\ ClashesOther(AssetsOf(c), editingId[c], f) => last'.err # ""
    ]_vars

\* C9 (amended): an update that changes only non-key fields and leaves the
\* name non-empty always succeeds and replaces the edited asset by the form
\* (price normalized); an update that sets a key field to the value another
\* asset holds always fails and changes nothing; an update with all required
\* fields that clashes with no other asset succeeds, so uniqueness is checked
\* against the assets other than the one being edited.
C9_UpdateValidation ==
  [][ \A c \in Ctx, f \in EditForms :
        SaveEdit(c, f) =>
          /\ (KeysSame(EditedAsset(c), f) /\ f.name # "")
               => /\ last'.err = ""
                  /\ mem'[c][KAssets] =
                       updateAsset(AssetsOf(c), editingId[c],
                                   [f EXCEPT !.price = NormalizePrice(f.price)])
          /\ ClashesOther(AssetsOf(c), editingId[c], f)
               => (last'.err \in {ErrRequired, ErrDupId, ErrDupCode, ErrDupSer}
                   /\ mem' = mem)
          /\ (~MissingRequired(f) /\ ~ClashesOther(AssetsOf(c), editingId[c], f))
               => last'.err = ""
    ]_vars

\* With two assets registered, an update that changed only the name was accepted.
C9_Witness ==
  /\ last.op = "Assets.saveEdit" /\ last.err = ""
  /\ Len(AssetsOf("A")) = 2
  /\ \E i \in SeqIdx(AssetsOf("A")) : AssetsOf("A")[i].name = "N2"

\* No notification is pending.
Quiescent == \A c \in Ctx : queue[c] = <<>>

\* C5 as stated: when two contexts mutated the same collection, each before
\* handling the other's notification, then once every notification has been
\* handled the store and every context hold the version of the second write.
C5_LastWriterWins ==
  (Quiescent /\ lastMut.racing)
    => /\ store[lastMut.key] = lastMut.raw
       /\ \A c \in open : mem[c][lastMut.key] = Parse(lastMut.raw)

\* Every context's copy of every key is the persisted value, nothing pending.
Converged ==
  /\ Quiescent
  /\ \A c \in open, k \in Keys : store[k] = Stringify(mem[c][k])

\* C6 as stated: once the users have stopped mutating, and with notifications
\* handled fairly, the system reaches and stays in a converged state.
C6_EventuallyConverges == (<>halted) => <>[]Converged

\* C7: a store write that changes key k queues one notification, carrying the
\* new text, in every other open context and none in the writer; a context
\* that handles a notification carrying a value for k replaces its copy of k
\* by that value and keeps its copies of the other keys, and no other
\* context's copies change.
C7_Notification ==
  [][ /\ \A k \in Keys :
           store'[k] # store[k] =>
             \A d \in open :
               IF d = last'.ctx
               THEN Len(queue'[d]) <= Len(queue[d])
               ELSE queue'[d] = Append(queue[d], Event(k, store'[k]))
      /\ last'.op = "onStorage" =>
           LET c == last'.ctx
               e == Head(queue[c])
           IN  /\ e.newValue # Absent => mem'[c][e.key] = Parse(e.newValue)
               /\ \A k \in Keys \ {e.key} : mem'[c][k] = mem[c][k]
               /\ \A d \in Ctx \ {c} : mem'[d] = mem[d]
    ]_vars

\* Context B handled a notification that replaced its borrow records, while
\* it keeps the asset it had received before.
C7_Witness ==
  /\ last.op = "onStorage" /\ last.ctx = "B" /\ last.aid = KBorrows
  /\ Len(BorrowsOf("B")) = 1
  /\ Len(AssetsOf("B")) = 1

\* The borrow collections in which a record can be looked up: each open
\* context's copy, and the persisted one.
StoredBorrows == Parse(store[KBorrows])

KeepsReturnedAt(before, after) ==
  \A i \in SeqIdx(before), j \in SeqIdx(after) :
    (before[i].id = after[j].id /\ ~IsActive(before[i]))
      => after[j].returned_at = before[i].returned_at

\* C8 as stated: once returned_at is non-null in a context's collection or in
\* the store, no later step changes it there.
C8_Original ==
  [][ /\ \A c \in open : KeepsReturnedAt(BorrowsOf(c), mem'[c][KBorrows])
      /\ KeepsReturnedAt(StoredBorrows, Parse(store'[KBorrows]))
    ]_vars

\* C8 (amended): once returned_at is non-null in a context's collection, no
\* return and no borrow edit made in that context changes it there.
C8_SetOnceLocally ==
  [][ last'.op \in {"returnBorrow", "Return.save"}
        => KeepsReturnedAt(BorrowsOf(last'.ctx), mem'[last'.ctx][KBorrows])
    ]_vars

\* A context that holds a closed loan has just edited or returned another loan.
C8_Witness ==
  /\ last.op \in {"returnBorrow", "Return.save"}
  /\ \E i, j \in SeqIdx(BorrowsOf(last.ctx)) :
       /\ i # j
       /\ ~IsActive(BorrowsOf(last.ctx)[i])
       /\ BorrowsOf(last.ctx)[j].id = last.rid

\* C10: a complete borrow submission in context c, for an asset that is
\* registered and free in c's own copy, is accepted and committed by c although
\* the store already holds another context's active loan of that asset whose
\* notification c has not handled yet.
C10_StalePreCheckPasses ==
  [][ \A c \in Ctx, id \in SyncAssetIds, form \in SyncBorrowForms, sign \in SyncSigns,
         ts \in CreatedStamps :
        ( /\ BorrowSubmit(c, id, form, sign, ts)
          /\ HasActive(StoredBorrows, id)
          /\ lastMut.ctx # c /\ lastMut.key = KBorrows /\ lastMut.pos[c] > 0
          /\ HasRow(AssetsOf(c), id) /\ ~HasActive(BorrowsOf(c), id)
          /\ Complete(form, sign) )
        => /\ last'.err = ""
           /\ Head(mem'[c][KBorrows]).asset_id = id
           /\ IsActive(Head(mem'[c][KBorrows]))
           /\ Tail(mem'[c][KBorrows]) = BorrowsOf(c)
           /\ store'[KBorrows] = Stringify(mem'[c][KBorrows])
    ]_vars

\* Both contexts hold an active loan of asset A1, under different record ids:
\* B committed its loan while A's was already persisted.
C10_Witness ==
  /\ last.op = "Borrow.submit" /\ last.err = "" /\ last.ctx = "B"
  /\ lastMut.racing
  /\ HasActive(BorrowsOf("A"), "A1") /\ HasActive(BorrowsOf("B"), "A1")
  /\ Head(BorrowsOf("A")).id # Head(BorrowsOf("B")).id

\* C11: a context that starts seeds every collection from the store: the
\* parsed entry, or the empty list when the key is absent or its text does not
\* parse; a reload of the only context, after whatever mutations it made,
\* gives it back exactly the collections it held before.
C11_RoundTrip ==
  [][ \A c \in SoloCtx :
        Start(c) =>
          /\ \A k \in Keys :
               mem'[c][k] = IF store[k] = Absent \/ store[k] = Corrupt THEN <<>>
                            ELSE store[k].val
          /\ reloading[c] = "reload" => mem'[c] = mem[c]
    ]_vars

\* The context reloaded while it held a borrow record it had created.
C11_Witness ==
  /\ last.op = "start" /\ last.aid = "reload" /\ last.ctx = "A"
  /\ Len(BorrowsOf("A")) >= 1
  /\ Len(AssetsOf("A")) >= 1

\* Whether record b is an element of sequence s.
InSeq(b, s) == \E i \in SeqIdx(s) : s[i] = b

\* C12 as stated: at every instant a record is in the dashboard's overdue list
\* iff it is not returned and its elapsed calendar days are at least 14, in
\* the not-overdue list iff it is not returned and they are fewer, and
\* overdueCount counts the overdue records.
C12_OverdueClassification ==
  \A c \in open :
    LET bs == BorrowsOf(c)
        days(b) == ElapsedDays(b.start_date, DateNow(clock.now), clock.tz)
    IN  /\ \A i \in SeqIdx(bs) :
             /\ InSeq(bs[i], overdue(bs, clock.now))
                  <=> (bs[i].returned_at = Null /\ days(bs[i]) >= OverdueDays)
             /\ InSeq(bs[i], normal(bs, clock.now))
                  <=> (bs[i].returned_at = Null /\ days(bs[i]) < OverdueDays)
        /\ overdueCount(bs, clock.now)
             = Cardinality({ i \in SeqIdx(bs) :
                   bs[i].returned_at = Null /\ days(bs[i]) >= OverdueDays })

\* C13 as stated: daysBetween returns the difference of the calendar days of
\* its two endpoints (0 when one of them does not parse).
C13_CalendarDays ==
  (probe.fn = "daysBetween" /\ probe.done)
    => probe.out = ElapsedDays(probe.a,
                               IF probe.b = "now" THEN DateNow(clock.now) ELSE NewDate(probe.b),
                               clock.tz)

\* The day number of a date text.
DayNo(s) == NewDate(s).t \div HoursPerDay

\* The records the filter of page state p is stated to keep.
StatedKeep(r, p) ==
  /\ p.from = "" \/ DayNo(r.start_date) >= DayNo(p.from)
  /\ p.to = "" \/ DayNo(r.start_date) <= DayNo(p.to)
  /\ p.dept = "" \/ r.borrower_dept = p.dept

\* C14: the filtered records are the records with start_date within from..to
\* (each bound only when set) and of the chosen department (when set), in the
\* order of the collection; with an empty filter they are the whole collection.
C14_FilterRecords ==
  \A c \in open :
    LET p == report[c]
        bs == BorrowsOf(c)
    IN  /\ filtered(bs, p) = SelectSeq(bs, LAMBDA r : StatedKeep(r, p))
        /\ (p.from = "" /\ p.to = "" /\ p.dept = "") => filtered(bs, p) = bs

\* The to bound is the start date of a record, and the record is kept while
\* the later one is dropped.
C14_Witness ==
  /\ report["A"].to = "2024-01-01"
  /\ Len(BorrowsOf("A")) = 2
  /\ filtered(BorrowsOf("A"), report["A"]) = <<Loan1>>

\* C15: a spreadsheet export with no filtered record produces no file, only
\* the notice; a print with no filtered record produces a document with the
\* single no-data row; a print whose window cannot be opened produces no
\* document and alerts the user.
C15_EmptyExportPolicy ==
  [][ \A c \in SoloCtx :
        LET p == report[c]
            q == report'[c]
            none == filtered(BorrowsOf(c), p) = <<>>
        IN  /\ (ExportXLSX(c) /\ none)
              => /\ q.files = p.files /\ q.docs = p.docs
                 /\ ~q.xlLoading /\ q.stage = "idle"
                 /\ q.xlNote = NoteEmpty
            /\ (PrintPDF(c, TRUE) /\ none)
              => /\ q.docs = Append(p.docs, <<NoDataRow>>)
                 /\ q.files = p.files /\ q.alerts = p.alerts
            /\ PrintPDF(c, FALSE)
              => /\ q.docs = p.docs /\ q.files = p.files
                 /\ q.alerts = p.alerts + 1
    ]_vars

\* A document with the no-data row was printed, and an export without data
\* left its notice and no file.
C15_Witness ==
  /\ InSeq(<<NoDataRow>>, report["A"].docs)
  /\ report["A"].notices = 1
  /\ report["A"].files = <<>>

\* C16: an export started with at least one filtered record is running with
\* those rows; when it settles it has added exactly one file with those rows,
\* .xlsx when the library loaded and the workbook was built and .xls
\* otherwise, and cleared the flag; no other step adds a file; and a running
\* export always settles.
C16_ExportCompletes ==
  /\ [][ LET p == report["A"]
             q == report'["A"]
         IN  /\ (ExportXLSX("A") /\ filtered(BorrowsOf("A"), p) # <<>>)
               => /\ q.xlLoading /\ q.stage = "load"
                  /\ q.rows = filtered(BorrowsOf("A"), p)
                  /\ q.files = p.files
             /\ \A load \in LoadResults, built \in BOOLEAN :
                  ExportSettles("A", load, built)
                    => /\ q.files = Append(p.files,
                                           File(IF load = "ok" /\ built THEN "xlsx" ELSE "xls",
                                                p.rows))
                       /\ ~q.xlLoading /\ q.stage = "idle"
             /\ q.files # p.files => p.stage = "load" /\ q.stage = "idle"
       ]_vars
  /\ (report["A"].stage = "load") ~> (report["A"].stage = "idle" /\ ~report["A"].xlLoading)

\* A fallback file and a primary file were produced, each with its rows, and
\* no export is running.
C16_Witness ==
  /\ ~report["A"].xlLoading
  /\ \E i, j \in SeqIdx(report["A"].files) :
       /\ report["A"].files[i].ext = "xls"
       /\ report["A"].files[j].ext = "xlsx"
       /\ report["A"].files[i].rows # <<>>

\* C17 as stated: the reload that follows a reset leaves every collection of
\* the resetting context empty.
C17_Original ==
  [][ \A c \in Ctx :
        (Start(c) /\ reloading[c] = "reset") => \A k \in Keys : mem'[c][k] = <<>>
    ]_vars

\* C17 (amended): a reset removes every entry, and the reload that follows
\* leaves every collection of the resetting context empty unless another
\* context has written an entry back in between; such a collection is seeded
\* with that entry.
C17_ResetEmpties ==
  [][ \A c \in Ctx :
        /\ Reset(c) => \A k \in Keys : store'[k] = Absent
        /\ (Start(c) /\ reloading[c] = "reset")
             => \A k \in Keys :
                  mem'[c][k] = IF store[k] = Absent THEN <<>> ELSE store[k].val
    ]_vars

\* Context A registered an asset, reset, and reloaded with nothing.
C17_Witness ==
  /\ last.op = "start" /\ last.aid = "reset" /\ last.ctx = "A"
  /\ lastMut.ctx = "A" /\ lastMut.key = KAssets
  /\ \A k \in Keys : mem["A"][k] = <<>>

\* The assets of s other than those with asset_id id, in order.
RECURSIVE Without(_, _)
Without(s, id) ==
  IF s = <<>> THEN <<>>
  ELSE (IF Head(s).asset_id = id THEN <<>> ELSE <<Head(s)>>) \o Without(Tail(s), id)

\* C18: deleteAsset reports no error, removes exactly the assets with the
\* given asset_id and keeps the others in order, for a registered id with or
\* without an active loan and for an id no asset has; it leaves the borrow
\* records of the context and of the store as they are.
C18_DeleteAsset ==
  [][ \A c \in Ctx :
        /\ \A id \in AssetIds \cup {"none"} :
             /\ deleteAsset(AssetsOf(c), id) = Without(AssetsOf(c), id)
             /\ ~HasRow(AssetsOf(c), id) => deleteAsset(AssetsOf(c), id) = AssetsOf(c)
        /\ \A id \in AssetIds :
             DeleteAsset(c, id)
               => /\ last'.err = ""
                  /\ mem'[c][KAssets] = Without(AssetsOf(c), id)
                  /\ store'[KAssets] = Stringify(Without(AssetsOf(c), id))
                  /\ mem'[c][KBorrows] = BorrowsOf(c)
                  /\ store'[KBorrows] = store[KBorrows]
    ]_vars

\* An asset was deleted while its loan is active; the other asset and the
\* loan, with its asset_id and asset_name, are still there.
C18_Witness ==
  /\ last.op = "deleteAsset"
  /\ ~HasRow(AssetsOf("A"), last.aid)
  /\ Len(AssetsOf("A")) = 1
  /\ \E i \in SeqIdx(BorrowsOf("A")) :
       /\ BorrowsOf("A")[i].asset_id = last.aid
       /\ BorrowsOf("A")[i].asset_name = "N1"
       /\ IsActive(BorrowsOf("A")[i])

RefKeys == {KBrands, KModels, KVendors, KDepts}

\* Every entry of list s is an entry of list t.
EntriesKept(s, t) == \A i \in SeqIdx(s) : InSeq(s[i], t)

\* What a quick add of text raw does to string list list.
StatedQuickAdd(list, raw) ==
  IF Trim(raw) # "" /\ ~InSeq(Trim(raw), list) THEN Append(list, Trim(raw)) ELSE list

\* C19 as stated: no step removes an entry from a reference list of a context
\* or of the store, and a quick add appends the trimmed value when it is
\* non-blank and not present and otherwise changes nothing.
C19_Original ==
  [][ /\ \A k \in RefKeys :
           /\ \A c \in open : EntriesKept(mem[c][k], mem'[c][k])
           /\ EntriesKept(store[k].val, store'[k].val)
      /\ \A c \in Ctx :
           /\ \A k \in ListKeys, raw \in ListTexts :
                ConfirmAdd(c, k, raw) => mem'[c][k] = StatedQuickAdd(mem[c][k], raw)
           /\ \A brand \in ModelBrands, raw \in ModelTexts :
                ConfirmAddModel(c, brand, raw)
                  => mem'[c][KModels]
                       = IF Trim(raw) # "" /\ ~HasModel(mem[c][KModels], brand, Trim(raw))
                         THEN Append(mem[c][KModels], [brand |-> brand, name |-> Trim(raw)])
                         ELSE mem[c][KModels]
    ]_vars

\* C19 (amended): a quick add never removes an entry from the lists of the
\* context that makes it; it appends the trimmed value when it is non-blank
\* and not present (for a model: when also a brand is selected) and otherwise
\* changes nothing.
C19_QuickAddGrows ==
  [][ \A c \in Ctx :
        /\ last'.op = "quickAdd" /\ last'.ctx = c
             => \A k \in RefKeys : EntriesKept(mem[c][k], mem'[c][k])
        /\ \A k \in ListKeys, raw \in ListTexts :
             ConfirmAdd(c, k, raw) => mem'[c][k] = StatedQuickAdd(mem[c][k], raw)
        /\ \A brand \in ModelBrands, raw \in ModelTexts :
             ConfirmAddModel(c, brand, raw)
               => mem'[c][KModels]
                    = IF brand # "" /\ Trim(raw) # ""
                         /\ ~HasModel(mem[c][KModels], brand, Trim(raw))
                      THEN Append(mem[c][KModels], [brand |-> brand, name |-> Trim(raw)])
                      ELSE mem[c][KModels]
    ]_vars

\* A context holds two brands and a model after its quick adds.
C19_Witness ==
  /\ last.op = "quickAdd"
  /\ \E c \in open : /\ Len(mem[c][KBrands]) = 2
                     /\ Len(mem[c][KModels]) = 1

\* C20: an accepted registration puts the asset, its price a number or null,
\* at the head of the collection and keeps the assets registered before as
\* its tail; an accepted borrow puts the new record at the head and keeps the
\* earlier records as the tail; the borrow records are always newest-first.
C20_NewestFirst ==
  [][ \A c \in Ctx :
        /\ \A f \in LedgerForms :
             (AssetsSubmit(c, f) /\ last'.err = "")
               => /\ Head(mem'[c][KAssets]) = [f EXCEPT !.price = NormalizePrice(f.price)]
                  /\ Head(mem'[c][KAssets]).price.t \in {"num", "null"}
                  /\ Tail(mem'[c][KAssets]) = AssetsOf(c)
        /\ (last'.op = "Borrow.submit" /\ last'.ctx = c /\ last'.err = "")
             => /\ Head(mem'[c][KBorrows]).id = nextId
                /\ Tail(mem'[c][KBorrows]) = BorrowsOf(c)
        /\ \A i, j \in SeqIdx(BorrowsOf(c)) :
             i < j => BorrowsOf(c)[i].id > BorrowsOf(c)[j].id
    ]_vars

\* The second asset, registered without a price, heads the collection, and
\* the second borrow record heads the borrow records.
C20_Witness ==
  /\ Len(AssetsOf("A")) = 2
  /\ Head(AssetsOf("A")).price = PNull
  /\ AssetsOf("A")[2].price = PNum(7)
  /\ Len(BorrowsOf("A")) = 2
  /\ Head(BorrowsOf("A")).id = 2

\* C21: updateBorrow(id, patch) is accepted whatever the state of the loan;
\* the record with that id takes the patch's value for every field of the
\* patch, returned_at included, and keeps its other fields; every other
\* record, the order of the records and the assets stay as they are.
C21_UpdateBorrow ==
  [][ \A c \in SoloCtx : \A id \in PatchIds, patch \in Patches :
        CallUpdateBorrow(c, id, patch)
          => LET old == BorrowsOf(c)
                 new == mem'[c][KBorrows]
             IN  /\ last'.err = ""
                 /\ Len(new) = Len(old)
                 /\ \A i \in SeqIdx(old) :
                      IF old[i].id = id
                      THEN /\ DOMAIN new[i] = DOMAIN old[i]
                           /\ \A f \in DOMAIN old[i] :
                                new[i][f] = IF f \in DOMAIN patch THEN patch[f] ELSE old[i][f]
                      ELSE new[i] = old[i]
                 /\ store'[KBorrows] = Stringify(new)
                 /\ mem'[c][KAssets] = AssetsOf(c)
                 /\ store'[KAssets] = store[KAssets]
    ]_vars

\* A closed loan was patched: it is closed at the patch's instant under the
\* patch's borrower, and the other record is the active loan it was.
C21_Witness ==
  /\ last.op = "updateBorrow" /\ last.aid = "closed"
  /\ Len(BorrowsOf("A")) = 2
  /\ \E i, j \in SeqIdx(BorrowsOf("A")) :
       /\ BorrowsOf("A")[i].id = last.rid
       /\ BorrowsOf("A")[i].returned_at = "2024-02-02T00:00:00Z"
       /\ BorrowsOf("A")[i].borrower_name = "B2"
       /\ BorrowsOf("A")[i].lender_name = "L1"
       /\ BorrowsOf("A")[j].id # last.rid
       /\ BorrowsOf("A")[j].borrower_name = "B1"
       /\ IsActive(BorrowsOf("A")[j])

\* C22: a mutation whose store write fails still changes the collection of
\* the context that made it, reports no error, leaves every persisted entry
\* as it was and dispatches no notification.
C22_BestEffort ==
  [][ \A c \in SoloCtx :
        full =>
          /\ \A f \in SyncForms :
               (AssetsSubmit(c, f) /\ SubmitError(AssetsOf(c), f) = "")
                 => /\ mem'[c][KAssets]
                         = createAsset(AssetsOf(c), [f EXCEPT !.price = NormalizePrice(f.price)])
                    /\ last'.err = ""
                    /\ store' = store /\ queue' = queue
          /\ (last'.op = "Borrow.submit" /\ last'.ctx = c /\ last'.err = "")
               => /\ Len(mem'[c][KBorrows]) = Len(BorrowsOf(c)) + 1
                  /\ Head(mem'[c][KBorrows]).id = nextId
                  /\ Tail(mem'[c][KBorrows]) = BorrowsOf(c)
                  /\ store' = store /\ queue' = queue
          /\ \A id \in RecordIds, ts \in CreatedStamps :
               ReturnClick(c, id, ts)
                 => /\ mem'[c][KBorrows] = returnBorrow(BorrowsOf(c), id, ts)
                    /\ mem'[c][KBorrows] # BorrowsOf(c)
                    /\ last'.err = ""
                    /\ store' = store /\ queue' = queue
    ]_vars

\* Context A has borrowed while the store refuses writes: A holds the record,
\* the persisted entry has none, and B holds none and has nothing to handle.
C22_Witness ==
  /\ full
  /\ last.op = "Borrow.submit" /\ last.ctx = "A" /\ last.err = ""
  /\ Len(BorrowsOf("A")) = 1
  /\ store[KBorrows] = Stringify(<<>>)
  /\ BorrowsOf("B") = <<>>
  /\ queue["B"] = <<>>

\* The queues of the contexts other than c are the same in the next state.
NoNewEvents(c) == \A d \in Ctx \ {c} : queue'[d] = queue[d]

\* C23 as stated: a step that handles a notification and a step that starts a
\* context leave the store as it is and dispatch nothing; an accepted
\* registration changes no entry other than the assets entry.
C23_WritesOnlyFromMutations ==
  [][ \A c \in Ctx :
        /\ OnStorage(c) => (store' = store /\ NoNewEvents(c))
        /\ Start(c) => (store' = store /\ NoNewEvents(c))
        /\ \A f \in SyncForms :
             AssetsSubmit(c, f) => \A k \in Keys \ {KAssets} : store'[k] = store[k]
    ]_vars

\* C24: with two contexts, the persisted borrow entry, the borrow collection
\* of every open context and every collection carried by a notification not
\* yet handled hold at most one active record per asset_id.
C24_OneActivePerCollection ==
  /\ OneActivePerAsset(StoredBorrows)
  /\ \A c \in open :
       /\ OneActivePerAsset(BorrowsOf(c))
       /\ \A i \in SeqIdx(queue[c]) :
            queue[c][i].key = KBorrows => OneActivePerAsset(Parse(queue[c][i].newValue))

\* Both contexts borrowed asset A1, the second from a stale snapshot, and no
\* loan was returned; every notification is handled and the store and both
\* contexts hold one record, active.
C24_Witness ==
  /\ nextId = 3
  /\ lastMut.racing /\ lastMut.key = KBorrows
  /\ queue["A"] = <<>> /\ queue["B"] = <<>>
  /\ Len(StoredBorrows) = 1 /\ IsActive(StoredBorrows[1])
  /\ BorrowsOf("A") = StoredBorrows /\ BorrowsOf("B") = StoredBorrows

\* C25 as stated: from A's reset until its reload completes, nothing that B
\* does or handles brings asset A1, which only A registers and which the
\* reset removed, back into the store, and A does not hold it after the
\* reload.
C25_ResetNotUndone ==
  /\ reloading["A"] = "reset" => ~HasRow(Seed(store[KAssets]), "A1")
  /\ (last.op = "start" /\ last.aid = "reset") => ~HasRow(AssetsOf("A"), "A1")

\* C26 as stated: the asset with serial S1 is the only one ever lent under
\* asset_id A1; while a loan recorded under A1 is active, no borrow
\* submission for that asset is accepted, whatever asset_id it has by then.
C26_BlockedUntilReturned ==
  [][ \A c \in Ctx :
        ( /\ last'.op = "Borrow.submit" /\ last'.ctx = c /\ last'.err = ""
          /\ AssetsOf(c)[FindIdx(AssetsOf(c), last'.aid)].serial = "S1" )
        => ~HasActive(BorrowsOf(c), "A1")
    ]_vars

\* C27 as stated: in every state borrowedCount is the number of asset_ids with
\* an active record, availableCount is the number of registered assets
\* without an active record, and the two add up to the number of assets.
C27_DashboardCounts ==
  \A c \in open :
    LET assets == AssetsOf(c)
        borrows == BorrowsOf(c)
    IN  /\ borrowedCount(borrows)
             = Cardinality({ borrows[i].asset_id : i \in { j \in SeqIdx(borrows) : IsActive(borrows[j]) } })
        /\ availableCount(assets, borrows)
             = Cardinality({ i \in SeqIdx(assets) : ~HasActive(borrows, assets[i].asset_id) })
        /\ borrowedCount(borrows) + availableCount(assets, borrows) = Len(assets)

====
